---- MODULE Spec2Model ----
(***************************************************************************)
(* Process manager and scheduler of the CTRLxT kernel                      *)
(* (src/src/kernel/process/process_manager.c, scheduler.c).                *)
(*                                                                         *)
(* Every C function is an operator that takes the world w (a record of all *)
(* the static variables of the two translation units) and returns the new  *)
(* world, together with the function's return value where it has one.  An  *)
(* action applies one public function to the current world.               *)
(*                                                                         *)
(* A pointer to a Process or Thread is modelled by the id of the record;   *)
(* NULL is 0, which no id ever equals (ids start at 1).                    *)
(***************************************************************************)
EXTENDS Integers, Sequences, FiniteSets, TLC

(***************************************************************************)
(* Bounds of the model.                                                    *)
(***************************************************************************)
\* ids handed out by next_process_id / next_thread_id stay <= these
\* how many ids next_process_id and next_thread_id may each hand out
MaxNewIds == 2
\* size of superposition_states, standing for MAX_SUPERPOSITIONS (32)
MaxSuperpositions == 2
\* size of process_entanglements, standing for MAX_PROCESS_ENTANGLEMENTS (128)
MaxEntanglements == 2
\* per-process thread ceiling, standing for MAX_THREADS_PER_PROCESS (64)
MaxThreadsPerProcess == 2
\* total entries the ready queues may hold before queueing operations stop
MaxQueued == 2
\* forced switches in a row (scheduler_start included), and the entries the
\* ready queues may hold after one of them
MaxRounds == 4
MaxRoundQueued == 5
\* cap on scheduler_state.total_context_switches
MaxSwitches == 2
\* cap on scheduler_state.superposition_count
MaxSupCount == 2
\* the clock runs from 0 to MaxClock
MaxClock == 1

(***************************************************************************)
(* Program constants.                                                      *)
(***************************************************************************)
NULL == 0

PRIORITY_LOWEST   == 0
PRIORITY_LOW      == 1
PRIORITY_NORMAL   == 2
PRIORITY_HIGH     == 3
PRIORITY_HIGHEST  == 4
PRIORITY_REALTIME == 5
PRIORITY_QUANTUM  == 6
PRIORITY_QUEUE_COUNT == PRIORITY_QUANTUM + 1

\* the time unit of the model is the default time slice (10 ms)
SCHEDULER_DEFAULT_QUANTUM == 1

ProcessState == {"PROCESS_CREATED", "PROCESS_RUNNING", "PROCESS_READY",
                 "PROCESS_BLOCKED", "PROCESS_SUSPENDED", "PROCESS_TERMINATED",
                 "PROCESS_QUANTUM"}
ThreadState == {"THREAD_CREATED", "THREAD_RUNNING", "THREAD_READY",
                "THREAD_BLOCKED", "THREAD_SUSPENDED", "THREAD_TERMINATED",
                "THREAD_QUANTUM"}
SchedulerType == {"SCHEDULER_ROUND_ROBIN", "SCHEDULER_PRIORITY",
                  "SCHEDULER_MULTILEVEL_FEEDBACK", "SCHEDULER_REALTIME",
                  "SCHEDULER_QUANTUM"}
ProcessEntanglementType == {"ENTANGLE_MEMORY", "ENTANGLE_STATE",
                            "ENTANGLE_EXECUTION", "ENTANGLE_RESONANCE"}

\* uint32_t counters (ProcessStats, thread_count, superposition_count) are held
\* as the integer of least magnitude congruent to them modulo 2^32: -1 is the
\* counter that has wrapped below zero to UINT32_MAX
Inc32(x) == x + 1
Dec32(x) == x - 1
\* a >= b as the C compiler compares two uint32_t
UGe(a, b) == IF (a < 0) = (b < 0) THEN a >= b ELSE a < 0

\* priorities the callers pass (all within the PriorityLevel enumeration)
PriorityInputs == {PRIORITY_NORMAL, PRIORITY_HIGH}

\* the processes InitReg starts with, by priority: process p, with main
\* thread p, has priority SeedPriorities[p]
SeedPriorities == <<PRIORITY_NORMAL, PRIORITY_HIGH>>
SeedProcs == Len(SeedPriorities)
\* pm_max_processes, as given to pm_init
MaxProcesses == SeedProcs + 1
\* the largest ids the model hands out
MaxPid == SeedProcs + MaxNewIds
MaxTid == SeedProcs + MaxNewIds

\* probabilities are counted in halves: 2 is 1.0, 1 is 0.5, 0 is 0.0
ProbOne  == 2
ProbHalf == 1

VARIABLES
    \* process_manager.c
    processes,              \* the process list: id -> Process
    threads,                \* the threads of all processes: id -> Thread
    pm_stats,
    process_entanglements,
    next_process_id,
    next_thread_id,
    next_entanglement_id,
    \* memory_manager.c: number of regions mm_alloc_virtual has handed out
    \* and mm_free_virtual has not yet taken back
    mm_regions,
    \* scheduler.c
    scheduler_running,
    scheduler_state,
    ready_queues,
    superposition_states,
    \* time(NULL), in time slices
    clock,
    \* the public functions whose calls are recorded (fixed by the initial state)
    watch,
    \* the last public call, if its function is watched: its name, argument
    \* (both process ids for a pairing request), return value, id (the id the
    \* call handed out; for a termination, the pairing id the process held),
    \* and whether its allocations were granted
    last,
    \* TRUE once a call has entered a recursion that never returns
    hung,
    \* the thread ids whose last watched superposition call was a collapse
    \* that returned true (no create for the id was called since)
    collapsed

vars == <<processes, threads, pm_stats, process_entanglements, next_process_id,
          next_thread_id, next_entanglement_id, mm_regions, scheduler_running,
          scheduler_state, ready_queues, superposition_states, clock, watch, last,
          hung, collapsed>>

\* the static state as one record
World == [processes |-> processes, threads |-> threads, pm_stats |-> pm_stats,
          process_entanglements |-> process_entanglements,
          next_process_id |-> next_process_id, next_thread_id |-> next_thread_id,
          next_entanglement_id |-> next_entanglement_id, mm_regions |-> mm_regions,
          scheduler_running |-> scheduler_running, scheduler_state |-> scheduler_state,
          ready_queues |-> ready_queues, superposition_states |-> superposition_states,
          clock |-> clock]

\* a function f with key k removed / added
Without(f, k) == [x \in (DOMAIN f) \ {k} |-> f[x]]
With(f, k, v) == [x \in (DOMAIN f) \cup {k} |-> IF x = k THEN v ELSE f[x]]

\* s without its i-th element
RemoveAt(s, i) == SubSeq(s, 1, i - 1) \o SubSeq(s, i + 1, Len(s))
\* index of the first element of s that satisfies Test, 0 if none
FirstIndex(s, Test(_)) ==
    IF \E i \in 1..Len(s) : Test(s[i])
    THEN CHOOSE i \in 1..Len(s) : Test(s[i]) /\ \A j \in 1..(i - 1) : ~Test(s[j])
    ELSE 0

(***************************************************************************)
(* process_manager.c: static helpers                                       *)
(***************************************************************************)
find_process(w, process_id) ==
    IF process_id \in DOMAIN w.processes THEN process_id ELSE NULL

find_thread(w, thread_id) ==
    IF \E p \in DOMAIN w.processes :
          \E i \in 1..Len(w.processes[p].threads) : w.processes[p].threads[i] = thread_id
    THEN thread_id ELSE NULL

\* index of the slot that holds entanglement_id, 0 if none
find_entanglement(w, entanglement_id) ==
    FirstIndex(w.process_entanglements, LAMBDA e : e.id = entanglement_id)

find_free_entanglement_slot(w) ==
    FirstIndex(w.process_entanglements, LAMBDA e : e.id = 0)

add_thread_to_process(w, process, thread) ==
    [w EXCEPT !.processes[process].threads = <<thread>> \o @,
              !.processes[process].thread_count = Inc32(@),
              !.pm_stats.total_threads = Inc32(@)]

remove_thread_from_process(w, process, thread) ==
    LET list == w.processes[process].threads
        i == FirstIndex(list, LAMBDA t : t = thread)
    IN [w EXCEPT !.processes[process].threads = IF i = 0 THEN @ ELSE RemoveAt(@, i),
                 !.processes[process].thread_count = Dec32(@),
                 !.pm_stats.total_threads = Dec32(@)]

\* the counter of pm_stats that counts processes in this state ("" if none)
StatOf(state) ==
    CASE state = "PROCESS_RUNNING" -> "running_processes"
      [] state = "PROCESS_BLOCKED" -> "blocked_processes"
      [] state = "PROCESS_QUANTUM" -> "quantum_processes"
      [] OTHER -> ""

Bump(stats, field, delta) ==
    IF field = "" THEN stats ELSE [stats EXCEPT ![field] = @ + delta]

add_process(w, process_id, process) ==
    [w EXCEPT !.processes = With(@, process_id, process),
              !.pm_stats = Bump([@ EXCEPT !.total_processes = Inc32(@)],
                                StatOf(process.state), 1)]

remove_process(w, process) ==
    [w EXCEPT !.processes = Without(@, process),
              !.pm_stats = Bump([@ EXCEPT !.total_processes = Dec32(@)],
                                StatOf(w.processes[process].state), -1)]

update_process_state(w, process, new_state) ==
    LET old == w.processes[process].state
        s1 == IF old # new_state
              THEN Bump(Bump(w.pm_stats, StatOf(old), -1), StatOf(new_state), 1)
              ELSE w.pm_stats
        own == {w.processes[process].threads[i] :
                    i \in 1..Len(w.processes[process].threads)}
    IN [w EXCEPT !.pm_stats = s1,
                 !.processes[process].state = new_state,
                 !.threads = IF new_state = "PROCESS_TERMINATED"
                             THEN [t \in DOMAIN @ |->
                                     IF t \in own
                                     THEN [@[t] EXCEPT !.state = "THREAD_TERMINATED"]
                                     ELSE @[t]]
                             ELSE @]

(***************************************************************************)
(* process_manager.c: public functions.  Each returns [w, ret].            *)
(***************************************************************************)
pm_get_process(w, process_id) == find_process(w, process_id)

pm_get_thread(w, thread_id) == find_thread(w, thread_id)

\* pm_create_thread with "thread->id = next_thread_id" (no increment)
pm_create_thread_same_id(w, params, malloc_ok, mm_ok) ==
    LET process == find_process(w, params.process_id)
        id == w.next_thread_id
        thread == [process_id |-> params.process_id, state |-> "THREAD_CREATED",
                   priority |-> params.priority]
    IN IF process = NULL \/ ~malloc_ok \/ ~mm_ok
          \/ UGe(w.processes[process].thread_count, MaxThreadsPerProcess)
       THEN [w |-> w, ret |-> FALSE, id |-> NULL]
       ELSE [w |-> add_thread_to_process(
                      [w EXCEPT !.threads = With(@, id, thread), !.mm_regions = @ + 1],
                      process, id),
             ret |-> TRUE, id |-> id]

\* malloc_ok: malloc of the Thread succeeds; mm_ok: mm_alloc_virtual grants the stack
pm_create_thread(w, params, malloc_ok, mm_ok) ==
    LET process == find_process(w, params.process_id)
        id == w.next_thread_id
        thread == [process_id |-> params.process_id, state |-> "THREAD_CREATED",
                   priority |-> params.priority]
        w1 == [w EXCEPT !.next_thread_id = @ + 1]
    IN IF process = NULL THEN [w |-> w, ret |-> FALSE, id |-> NULL]
       ELSE IF w.processes[process].state = "PROCESS_TERMINATED"
       THEN [w |-> w, ret |-> FALSE, id |-> NULL]
       ELSE IF UGe(w.processes[process].thread_count, MaxThreadsPerProcess)
       THEN [w |-> w, ret |-> FALSE, id |-> NULL]
       ELSE IF ~malloc_ok THEN [w |-> w, ret |-> FALSE, id |-> NULL]
       ELSE IF ~mm_ok THEN [w |-> w1, ret |-> FALSE, id |-> NULL]
       ELSE [w |-> add_thread_to_process(
                      [w1 EXCEPT !.threads = With(@, id, thread),
                                 !.mm_regions = @ + 1],
                      process, id),
             ret |-> TRUE, id |-> id]

\* pm_create_process without "mm_free_virtual(process->memory_map)" (line 367)
pm_create_process_keep_map(w, params, malloc_ok, mm_ok) ==
    LET id == w.next_process_id
        process == [state |-> "PROCESS_CREATED", priority |-> params.priority,
                    threads |-> <<>>, thread_count |-> 0, entanglement_id |-> 0,
                    memory_map |-> TRUE]
        w1 == [w EXCEPT !.next_process_id = @ + 1]
        w2 == [w1 EXCEPT !.mm_regions = @ + 1]
        main == pm_create_thread(w2, [process_id |-> id, priority |-> params.priority],
                                 TRUE, TRUE)
    IN IF UGe(w.pm_stats.total_processes, MaxProcesses)
       THEN [w |-> w, ret |-> FALSE, id |-> NULL]
       ELSE IF ~malloc_ok THEN [w |-> w, ret |-> FALSE, id |-> NULL]
       ELSE IF ~mm_ok THEN [w |-> w1, ret |-> FALSE, id |-> NULL]
       ELSE IF ~main.ret
       THEN [w |-> main.w, ret |-> FALSE, id |-> NULL]
       ELSE [w |-> add_process(main.w, id, process), ret |-> TRUE, id |-> id]

\* malloc_ok: malloc of the Process succeeds; mm_ok: mm_alloc_virtual grants
\* the address space.  The main thread is created before add_process.
pm_create_process(w, params, malloc_ok, mm_ok) ==
    LET id == w.next_process_id
        process == [state |-> "PROCESS_CREATED", priority |-> params.priority,
                    threads |-> <<>>, thread_count |-> 0, entanglement_id |-> 0,
                    memory_map |-> TRUE]
        w1 == [w EXCEPT !.next_process_id = @ + 1]
        w2 == [w1 EXCEPT !.mm_regions = @ + 1]
        main == pm_create_thread(w2, [process_id |-> id, priority |-> params.priority],
                                 TRUE, TRUE)
    IN IF UGe(w.pm_stats.total_processes, MaxProcesses)
       THEN [w |-> w, ret |-> FALSE, id |-> NULL]
       ELSE IF ~malloc_ok THEN [w |-> w, ret |-> FALSE, id |-> NULL]
       ELSE IF ~mm_ok THEN [w |-> w1, ret |-> FALSE, id |-> NULL]
       ELSE IF ~main.ret
       THEN [w |-> [main.w EXCEPT !.mm_regions = @ - 1], ret |-> FALSE, id |-> NULL]
       ELSE [w |-> add_process(main.w, id, process), ret |-> TRUE, id |-> id]

pm_break_process_entanglement(w, entanglement_id) ==
    LET slot == find_entanglement(w, entanglement_id)
        e == w.process_entanglements[slot]
        first == find_process(w, e.first_process)
        second == find_process(w, e.second_process)
        stateful == e.type \in {"ENTANGLE_STATE", "ENTANGLE_EXECUTION"}
        w1 == IF first = NULL THEN w
              ELSE LET c == [w EXCEPT !.processes[first].entanglement_id = 0]
                   IN IF stateful THEN update_process_state(c, first, "PROCESS_READY")
                      ELSE c
        w2 == IF second = NULL THEN w1
              ELSE LET c == [w1 EXCEPT !.processes[second].entanglement_id = 0]
                   IN IF stateful THEN update_process_state(c, second, "PROCESS_READY")
                      ELSE c
    IN IF slot = 0 THEN [w |-> w, ret |-> FALSE]
       ELSE [w |-> [w2 EXCEPT !.process_entanglements[slot] =
                                   [id |-> 0, first_process |-> 0, second_process |-> 0,
                                    type |-> "ENTANGLE_NONE"],
                               !.pm_stats.total_entanglements = Dec32(@)],
             ret |-> TRUE]

\* the threads of the process, all freed with their stacks
FreeAllThreads(w, process) ==
    LET own == {w.processes[process].threads[i] :
                    i \in 1..Len(w.processes[process].threads)}
        n == Len(w.processes[process].threads)
    IN [w EXCEPT !.threads = [t \in (DOMAIN @) \ own |-> @[t]],
                 !.processes[process].threads = <<>>,
                 !.processes[process].thread_count = @ - n,
                 !.pm_stats.total_threads = @ - n,
                 !.mm_regions = @ - n]

\* pm_terminate_process without the call of remove_process: the process
\* stays on the list, Terminated
pm_terminate_process_listed(w, process_id) ==
    LET process == find_process(w, process_id)
        w1 == IF w.processes[process].entanglement_id # 0
              THEN pm_break_process_entanglement(w, w.processes[process].entanglement_id).w
              ELSE w
        w2 == update_process_state(w1, process, "PROCESS_TERMINATED")
        w3 == [w2 EXCEPT !.mm_regions = @ - 1, !.processes[process].memory_map = FALSE]
    IN IF process = NULL THEN [w |-> w, ret |-> FALSE]
       ELSE IF w.processes[process].state = "PROCESS_TERMINATED"
       THEN [w |-> w, ret |-> TRUE]
       ELSE [w |-> FreeAllThreads(w3, process), ret |-> TRUE]

\* pm_terminate_process without "break entanglement if any" (lines 404-408)
pm_terminate_process_paired(w, process_id) ==
    LET process == find_process(w, process_id)
        w1 == w
        w2 == update_process_state(w1, process, "PROCESS_TERMINATED")
        w3 == IF w2.processes[process].memory_map
              THEN [w2 EXCEPT !.mm_regions = @ - 1, !.processes[process].memory_map = FALSE]
              ELSE w2
        w4 == FreeAllThreads(w3, process)
    IN IF process = NULL THEN [w |-> w, ret |-> FALSE]
       ELSE IF w.processes[process].state = "PROCESS_TERMINATED"
       THEN [w |-> w, ret |-> TRUE]
       ELSE [w |-> remove_process(w4, process), ret |-> TRUE]

pm_terminate_process(w, process_id) ==
    LET process == find_process(w, process_id)
        w1 == IF w.processes[process].entanglement_id # 0
              THEN pm_break_process_entanglement(w, w.processes[process].entanglement_id).w
              ELSE w
        w2 == update_process_state(w1, process, "PROCESS_TERMINATED")
        w3 == IF w2.processes[process].memory_map
              THEN [w2 EXCEPT !.mm_regions = @ - 1, !.processes[process].memory_map = FALSE]
              ELSE w2
        w4 == FreeAllThreads(w3, process)
    IN IF process = NULL THEN [w |-> w, ret |-> FALSE]
       ELSE IF w.processes[process].state = "PROCESS_TERMINATED"
       THEN [w |-> w, ret |-> TRUE]
       ELSE [w |-> remove_process(w4, process), ret |-> TRUE]

\* pm_terminate_thread that always takes the "just remove this thread" branch
pm_terminate_thread_only(w, thread_id) ==
    LET thread == find_thread(w, thread_id)
        process == find_process(w, w.threads[thread].process_id)
        w2 == remove_thread_from_process(w, process, thread)
    IN IF thread = NULL THEN [w |-> w, ret |-> FALSE]
       ELSE IF process = NULL THEN [w |-> w, ret |-> FALSE]
       ELSE [w |-> [w2 EXCEPT !.threads = Without(@, thread), !.mm_regions = @ - 1],
             ret |-> TRUE]

pm_terminate_thread(w, thread_id) ==
    LET thread == find_thread(w, thread_id)
        process == find_process(w, w.threads[thread].process_id)
        w1 == [w EXCEPT !.threads[thread].state = "THREAD_TERMINATED"]
        list == w.processes[process].threads
        all_threads_terminated ==
            \A i \in 1..Len(list) :
                list[i] = thread_id \/ w1.threads[list[i]].state = "THREAD_TERMINATED"
        w2 == remove_thread_from_process(w1, process, thread)
    IN IF thread = NULL THEN [w |-> w, ret |-> FALSE]
       ELSE IF process = NULL THEN [w |-> w, ret |-> FALSE]
       ELSE IF w.threads[thread].state = "THREAD_TERMINATED"
       THEN [w |-> w, ret |-> TRUE]
       ELSE IF all_threads_terminated
       THEN [w |-> pm_terminate_process(w1, process).w, ret |-> TRUE]
       ELSE [w |-> [w2 EXCEPT !.threads = Without(@, thread), !.mm_regions = @ - 1],
             ret |-> TRUE]

pm_set_process_priority(w, process_id, priority) ==
    LET process == find_process(w, process_id)
        own == {w.processes[process].threads[i] :
                    i \in 1..Len(w.processes[process].threads)}
    IN IF process = NULL THEN [w |-> w, ret |-> FALSE]
       ELSE [w |-> [w EXCEPT !.processes[process].priority = priority,
                             !.threads = [t \in DOMAIN @ |->
                                            IF t \in own
                                            THEN [@[t] EXCEPT !.priority = priority]
                                            ELSE @[t]]],
             ret |-> TRUE]

pm_set_thread_priority(w, thread_id, priority) ==
    LET thread == find_thread(w, thread_id)
    IN IF thread = NULL THEN [w |-> w, ret |-> FALSE]
       ELSE [w |-> [w EXCEPT !.threads[thread].priority = priority], ret |-> TRUE]

\* quantum: what hal_ops->has_quantum_support() answers
\* pm_create_process_entanglement without the test "already entangled" (line 679)
pm_create_process_entanglement_again(w, first_process_id, second_process_id, type, quantum) ==
    LET first == find_process(w, first_process_id)
        second == find_process(w, second_process_id)
        slot == find_free_entanglement_slot(w)
        entanglement_id == w.next_entanglement_id
        w1 == [w EXCEPT !.next_entanglement_id = @ + 1,
                        !.process_entanglements[slot] =
                            [id |-> entanglement_id, first_process |-> first_process_id,
                             second_process |-> second_process_id, type |-> type],
                        !.processes[first].entanglement_id = entanglement_id]
        w2 == [w1 EXCEPT !.processes[second].entanglement_id = entanglement_id]
        w3 == IF type \in {"ENTANGLE_STATE", "ENTANGLE_EXECUTION"}
              THEN update_process_state(
                       update_process_state(w2, first, "PROCESS_QUANTUM"),
                       second, "PROCESS_QUANTUM")
              ELSE w2
    IN IF ~quantum THEN [w |-> w, ret |-> 0]
       ELSE IF first = NULL \/ second = NULL THEN [w |-> w, ret |-> 0]
       ELSE IF slot = 0 THEN [w |-> w, ret |-> 0]
       ELSE [w |-> [w3 EXCEPT !.pm_stats.total_entanglements = Inc32(@)],
             ret |-> entanglement_id]

pm_create_process_entanglement(w, first_process_id, second_process_id, type, quantum) ==
    LET first == find_process(w, first_process_id)
        second == find_process(w, second_process_id)
        slot == find_free_entanglement_slot(w)
        entanglement_id == w.next_entanglement_id
        w1 == [w EXCEPT !.next_entanglement_id = @ + 1,
                        !.process_entanglements[slot] =
                            [id |-> entanglement_id, first_process |-> first_process_id,
                             second_process |-> second_process_id, type |-> type],
                        !.processes[first].entanglement_id = entanglement_id]
        w2 == [w1 EXCEPT !.processes[second].entanglement_id = entanglement_id]
        w3 == IF type \in {"ENTANGLE_STATE", "ENTANGLE_EXECUTION"}
              THEN update_process_state(
                       update_process_state(w2, first, "PROCESS_QUANTUM"),
                       second, "PROCESS_QUANTUM")
              ELSE w2
    IN IF ~quantum THEN [w |-> w, ret |-> 0]
       ELSE IF first = NULL \/ second = NULL THEN [w |-> w, ret |-> 0]
       ELSE IF w.processes[first].entanglement_id # 0
               \/ w.processes[second].entanglement_id # 0
       THEN [w |-> w, ret |-> 0]
       ELSE IF slot = 0 THEN [w |-> w, ret |-> 0]
       ELSE [w |-> [w3 EXCEPT !.pm_stats.total_entanglements = Inc32(@)],
             ret |-> entanglement_id]

\* ENTANGLE_EXECUTION (lines 850-877): the two thread lists are walked in
\* step, from position i on, until one of them ends
RECURSIVE sync_thread_states(_, _, _, _)
sync_thread_states(w, first, second, i) ==
    LET thread1 == w.processes[first].threads[i]
        thread2 == w.processes[second].threads[i]
        s1 == w.threads[thread1].state
        s2 == w.threads[thread2].state
        state == IF s1 = "THREAD_RUNNING" \/ s2 = "THREAD_RUNNING" THEN "THREAD_RUNNING"
                 ELSE IF s1 = "THREAD_READY" \/ s2 = "THREAD_READY" THEN "THREAD_READY"
                 ELSE "THREAD_BLOCKED"
    IN IF i > Len(w.processes[first].threads) \/ i > Len(w.processes[second].threads)
       THEN w
       ELSE IF s1 = s2 THEN sync_thread_states(w, first, second, i + 1)
       ELSE sync_thread_states([w EXCEPT !.threads[thread1].state = state,
                                         !.threads[thread2].state = state],
                               first, second, i + 1)

\* is_synchronized, stability, total_quantum_ops and the resonance levels are
\* read by no function of the model and are left out of its state; of
\* ENTANGLE_RESONANCE and ENTANGLE_MEMORY only the result is kept.
pm_sync_process_entanglement(w, entanglement_id) ==
    LET slot == find_entanglement(w, entanglement_id)
        entanglement == w.process_entanglements[slot]
        first == find_process(w, entanglement.first_process)
        second == find_process(w, entanglement.second_process)
        f == w.processes[first].state
        g == w.processes[second].state
        state == IF f = "PROCESS_RUNNING" \/ g = "PROCESS_RUNNING" THEN "PROCESS_RUNNING"
                 ELSE IF f = "PROCESS_READY" \/ g = "PROCESS_READY" THEN "PROCESS_READY"
                 ELSE "PROCESS_BLOCKED"
    IN IF slot = 0 THEN [w |-> w, ret |-> FALSE]
       ELSE IF first = NULL \/ second = NULL THEN [w |-> w, ret |-> FALSE]
       ELSE IF entanglement.type = "ENTANGLE_STATE"
       THEN IF f # g
            THEN [w |-> update_process_state(update_process_state(w, first, state),
                                             second, state),
                  ret |-> TRUE]
            ELSE [w |-> w, ret |-> TRUE]
       ELSE IF entanglement.type = "ENTANGLE_EXECUTION"
       THEN [w |-> sync_thread_states(w, first, second, 1), ret |-> TRUE]
       ELSE IF entanglement.type \in {"ENTANGLE_MEMORY", "ENTANGLE_RESONANCE"}
       THEN [w |-> w, ret |-> TRUE]
       ELSE [w |-> w, ret |-> FALSE]

(***************************************************************************)
(* scheduler.c: static helpers.  ready_queues maps a priority level to the *)
(* list of its entries, head first.  malloc of a queue entry is taken to   *)
(* succeed.                                                                *)
(***************************************************************************)
Levels == 0..(PRIORITY_QUEUE_COUNT - 1)

\* the thread ids queued at a level, in order
QueuedIds(q, i) == [k \in 1..Len(q[i]) |-> q[i][k].thread_id]

\* the highest level that holds an entry (-1 if all are empty)
HighestNonEmpty(q) ==
    IF \E i \in Levels : q[i] # <<>>
    THEN CHOOSE i \in Levels : q[i] # <<>> /\ \A j \in Levels : j > i => q[j] = <<>>
    ELSE -1

add_to_queue(w, thread_id, priority) ==
    LET level == IF priority >= PRIORITY_QUEUE_COUNT THEN PRIORITY_NORMAL ELSE priority
        thread == pm_get_thread(w, thread_id)
        slot == FirstIndex(w.superposition_states, LAMBDA s : s.thread_id = thread_id)
        entry == [thread_id |-> thread_id,
                  quantum_probability |->
                      IF slot # 0 THEN w.superposition_states[slot].probability
                      ELSE ProbOne]
    IN IF thread = NULL THEN [w |-> w, ret |-> FALSE]
       ELSE [w |-> [w EXCEPT !.ready_queues[level] = Append(@, entry)], ret |-> TRUE]

remove_from_queues(w, thread_id) ==
    LET holds(i) == \E k \in 1..Len(w.ready_queues[i]) :
                        w.ready_queues[i][k].thread_id = thread_id
        found == \E i \in Levels : holds(i)
        level == CHOOSE i \in Levels : holds(i) /\ \A j \in Levels : j < i => ~holds(j)
        k == FirstIndex(w.ready_queues[level], LAMBDA e : e.thread_id = thread_id)
    IN IF found
       THEN [w |-> [w EXCEPT !.ready_queues[level] = RemoveAt(@, k)], ret |-> TRUE]
       ELSE [w |-> w, ret |-> FALSE]

\* SCHEDULER_QUANTUM: the candidate list, superposition slots first, then the
\* queued threads not yet listed, highest level first.  prob is the weight
\* times PRIORITY_QUEUE_COUNT (so that it stays an integer).
RECURSIVE QueueCandidates(_, _, _, _)
QueueCandidates(q, i, k, acc) ==
    IF i < 0 \/ Len(acc) >= MaxSuperpositions * 2 THEN acc
    ELSE IF k > Len(q[i]) THEN QueueCandidates(q, i - 1, 1, acc)
    ELSE IF \E j \in 1..Len(acc) : acc[j].thread_id = q[i][k].thread_id
    THEN QueueCandidates(q, i, k + 1, acc)
    ELSE QueueCandidates(q, i, k + 1,
             Append(acc, [thread_id |-> q[i][k].thread_id,
                          prob |-> q[i][k].quantum_probability * (i + 1)]))

Candidates(w) ==
    LET occupied == SelectSeq(w.superposition_states, LAMBDA s : s.thread_id # 0)
        first == [j \in 1..Len(occupied) |->
                     [thread_id |-> occupied[j].thread_id,
                      prob |-> occupied[j].probability * PRIORITY_QUEUE_COUNT]]
    IN QueueCandidates(w.ready_queues, PRIORITY_QUEUE_COUNT - 1, 1, first)

RECURSIVE SumProb(_)
SumProb(c) == IF c = <<>> THEN 0 ELSE c[1].prob + SumProb(Tail(c))

\* select_candidate with "random_value < cumulative_probability"
RECURSIVE select_candidate_strict(_, _, _, _)
select_candidate_strict(c, sample, i, cumulative_probability) ==
    IF i > Len(c) THEN 1
    ELSE IF sample < cumulative_probability + c[i].prob THEN i
    ELSE select_candidate_strict(c, sample, i + 1, cumulative_probability + c[i].prob)

\* The loop over the candidates (lines 291-301): random_value is
\* sample / SumProb(c), the normalised weights are prob / SumProb(c), so
\* "random_value <= cumulative_probability" is sample <= cumulative.  The
\* result is the index of the candidate returned; after the loop the first.
RECURSIVE select_candidate(_, _, _, _)
select_candidate(c, sample, i, cumulative_probability) ==
    IF i > Len(c) THEN 1
    ELSE IF sample <= cumulative_probability + c[i].prob THEN i
    ELSE select_candidate(c, sample, i + 1, cumulative_probability + c[i].prob)

\* u: where rand() lands.  The samples are the upper ends of the candidates'
\* intervals of the cumulative distribution, u counting the intervals from 0
\* (modulo their number); the last one is rand() = RAND_MAX.
rand_sample(c, u) ==
    LET n == (u % Len(c)) + 1
    IN SumProb(SubSeq(c, 1, n))

\* get_next_thread with the scan "for (int i = 0; i < PRIORITY_QUEUE_COUNT; i++)"
get_next_thread_lowest_first(w, u) ==
    LET type == w.scheduler_state.type
        nonempty == {i \in Levels : w.ready_queues[i] # <<>>}
        i == IF nonempty = {} THEN -1
             ELSE CHOOSE l \in nonempty : \A j \in nonempty : l <= j
        next_thread == w.ready_queues[i][1].thread_id
        popped == [w EXCEPT !.ready_queues[i] = Tail(@)]
        c == Candidates(w)
    IN IF type \in {"SCHEDULER_ROUND_ROBIN", "SCHEDULER_PRIORITY",
                    "SCHEDULER_MULTILEVEL_FEEDBACK"}
       THEN IF i < 0 THEN [w |-> w, ret |-> 0]
            ELSE [w |-> add_to_queue(popped, next_thread, i).w, ret |-> next_thread]
       ELSE IF type = "SCHEDULER_REALTIME"
       THEN IF i < 0 THEN [w |-> w, ret |-> 0]
            ELSE [w |-> w, ret |-> next_thread]
       ELSE IF Len(c) = 0 \/ SumProb(c) <= 0 THEN [w |-> w, ret |-> 0]
            ELSE [w |-> w, ret |-> c[select_candidate(c, rand_sample(c, u), 1, 0)].thread_id]

\* u: where rand() lands, see rand_sample
get_next_thread(w, u) ==
    LET type == w.scheduler_state.type
        i == HighestNonEmpty(w.ready_queues)
        next_thread == w.ready_queues[i][1].thread_id
        popped == [w EXCEPT !.ready_queues[i] = Tail(@)]
        c == Candidates(w)
    IN IF type \in {"SCHEDULER_ROUND_ROBIN", "SCHEDULER_PRIORITY",
                    "SCHEDULER_MULTILEVEL_FEEDBACK"}
       THEN IF i < 0 THEN [w |-> w, ret |-> 0]
            ELSE [w |-> add_to_queue(popped, next_thread, i).w, ret |-> next_thread]
       ELSE IF type = "SCHEDULER_REALTIME"
       THEN IF i < 0 THEN [w |-> w, ret |-> 0]
            ELSE [w |-> w, ret |-> next_thread]
       ELSE IF Len(c) = 0 \/ SumProb(c) <= 0 THEN [w |-> w, ret |-> 0]
            ELSE [w |-> w, ret |-> c[select_candidate(c, rand_sample(c, u), 1, 0)].thread_id]

\* a thread the context switch can dispatch: registered, in a registered process
Dispatchable(w, thread_id) ==
    /\ pm_get_thread(w, thread_id) # NULL
    /\ pm_get_process(w, w.threads[thread_id].process_id) # NULL

(***************************************************************************)
(* scheduler.c: public functions.  Those that may switch return            *)
(* [w, ret, hung]; hung says that the retry recursion of                   *)
(* scheduler_context_switch never ends.                                    *)
(***************************************************************************)
\* scheduler_context_switch without the test of the time slice (lines 649-652)
RECURSIVE scheduler_context_switch_no_slice(_, _, _)
scheduler_context_switch_no_slice(w, force, u) ==
    LET elapsed == w.clock - w.scheduler_state.last_context_switch
        cur == w.scheduler_state.current_thread
        current == pm_get_thread(w, cur)
        w1 == IF cur # 0 /\ current # NULL /\ w.threads[current].state = "THREAD_RUNNING"
              THEN add_to_queue([w EXCEPT !.threads[current].state = "THREAD_READY"],
                                cur, w.threads[current].priority).w
              ELSE w
        sel == get_next_thread(w1, u)
        w2 == sel.w
        next_thread == sel.ret
        process == w2.threads[next_thread].process_id
        type == w.scheduler_state.type
    IN IF ~w.scheduler_running THEN [w |-> w, ret |-> FALSE, hung |-> FALSE]
       ELSE IF next_thread = 0
       THEN [w |-> [w2 EXCEPT !.scheduler_state.current_process = 0,
                              !.scheduler_state.current_thread = 0,
                              !.scheduler_state.last_context_switch = w.clock],
             ret |-> TRUE, hung |-> FALSE]
       ELSE IF ~Dispatchable(w2, next_thread)
       THEN \* try again: the same call, on what this pass left behind
            IF type = "SCHEDULER_REALTIME"
            THEN [w |-> w2, ret |-> FALSE, hung |-> TRUE]
            ELSE IF type = "SCHEDULER_QUANTUM"
            THEN IF \E j \in 1..Len(Candidates(w2)) :
                        Dispatchable(w2, Candidates(w2)[j].thread_id)
                 THEN scheduler_context_switch_no_slice(w2, TRUE, u + 1)
                 ELSE [w |-> w2, ret |-> FALSE, hung |-> TRUE]
            ELSE scheduler_context_switch_no_slice(w2, TRUE, u)
       ELSE [w |-> [w2 EXCEPT !.threads[next_thread].state = "THREAD_RUNNING",
                              !.processes[process].state = "PROCESS_RUNNING",
                              !.scheduler_state.current_process = process,
                              !.scheduler_state.current_thread = next_thread,
                              !.scheduler_state.last_context_switch = w.clock,
                              !.scheduler_state.total_context_switches = @ + 1],
             ret |-> TRUE, hung |-> FALSE]

RECURSIVE scheduler_context_switch(_, _, _)
scheduler_context_switch(w, force, u) ==
    LET elapsed == w.clock - w.scheduler_state.last_context_switch
        cur == w.scheduler_state.current_thread
        current == pm_get_thread(w, cur)
        w1 == IF cur # 0 /\ current # NULL /\ w.threads[current].state = "THREAD_RUNNING"
              THEN add_to_queue([w EXCEPT !.threads[current].state = "THREAD_READY"],
                                cur, w.threads[current].priority).w
              ELSE w
        sel == get_next_thread(w1, u)
        w2 == sel.w
        next_thread == sel.ret
        process == w2.threads[next_thread].process_id
        type == w.scheduler_state.type
    IN IF ~w.scheduler_running THEN [w |-> w, ret |-> FALSE, hung |-> FALSE]
       ELSE IF ~force /\ elapsed < w.scheduler_state.time_slice
       THEN [w |-> w, ret |-> FALSE, hung |-> FALSE]
       ELSE IF next_thread = 0
       THEN [w |-> [w2 EXCEPT !.scheduler_state.current_process = 0,
                              !.scheduler_state.current_thread = 0,
                              !.scheduler_state.last_context_switch = w.clock],
             ret |-> TRUE, hung |-> FALSE]
       ELSE IF ~Dispatchable(w2, next_thread)
       THEN \* try again: the same call, on what this pass left behind
            IF type = "SCHEDULER_REALTIME"
            THEN [w |-> w2, ret |-> FALSE, hung |-> TRUE]
            ELSE IF type = "SCHEDULER_QUANTUM"
            THEN IF \E j \in 1..Len(Candidates(w2)) :
                        Dispatchable(w2, Candidates(w2)[j].thread_id)
                 THEN scheduler_context_switch(w2, TRUE, u + 1)
                 ELSE [w |-> w2, ret |-> FALSE, hung |-> TRUE]
            ELSE scheduler_context_switch(w2, TRUE, u)
       ELSE [w |-> [w2 EXCEPT !.threads[next_thread].state = "THREAD_RUNNING",
                              !.processes[process].state = "PROCESS_RUNNING",
                              !.scheduler_state.current_process = process,
                              !.scheduler_state.current_thread = next_thread,
                              !.scheduler_state.last_context_switch = w.clock,
                              !.scheduler_state.total_context_switches = @ + 1],
             ret |-> TRUE, hung |-> FALSE]

scheduler_start(w, u) ==
    IF w.scheduler_running THEN [w |-> w, ret |-> FALSE, hung |-> FALSE]
    ELSE scheduler_context_switch(
             [w EXCEPT !.scheduler_state.last_context_switch = w.clock,
                       !.scheduler_running = TRUE], TRUE, u)

\* scheduler_stop that also empties the ready queues
scheduler_stop_flush(w) ==
    IF ~w.scheduler_running THEN [w |-> w, ret |-> FALSE]
    ELSE [w |-> [w EXCEPT !.scheduler_running = FALSE,
                          !.scheduler_state.current_process = 0,
                          !.scheduler_state.current_thread = 0,
                          !.ready_queues = [i \in Levels |-> <<>>]],
          ret |-> TRUE]

scheduler_stop(w) ==
    IF ~w.scheduler_running THEN [w |-> w, ret |-> FALSE]
    ELSE [w |-> [w EXCEPT !.scheduler_running = FALSE,
                          !.scheduler_state.current_process = 0,
                          !.scheduler_state.current_thread = 0],
          ret |-> TRUE]

scheduler_add_thread(w, thread_id) ==
    LET thread == pm_get_thread(w, thread_id)
        w1 == remove_from_queues(w, thread_id).w
        w2 == IF w1.threads[thread].state # "THREAD_RUNNING"
              THEN [w1 EXCEPT !.threads[thread].state = "THREAD_READY"]
              ELSE w1
    IN IF thread = NULL THEN [w |-> w, ret |-> FALSE]
       ELSE add_to_queue(w2, thread_id, w2.threads[thread].priority)

scheduler_remove_thread(w, thread_id) == remove_from_queues(w, thread_id)

scheduler_block_thread(w, thread_id, u) ==
    LET thread == pm_get_thread(w, thread_id)
        w1 == remove_from_queues(w, thread_id).w
        w2 == [w1 EXCEPT !.threads[thread].state = "THREAD_BLOCKED"]
    IN IF thread = NULL THEN [w |-> w, ret |-> FALSE, hung |-> FALSE]
       ELSE IF w2.scheduler_running /\ thread_id = w2.scheduler_state.current_thread
       THEN scheduler_context_switch(w2, TRUE, u)
       ELSE [w |-> w2, ret |-> TRUE, hung |-> FALSE]

\* scheduler_unblock_thread without the "consider context switch" block
scheduler_unblock_thread_no_switch(w, thread_id, u) ==
    LET thread == pm_get_thread(w, thread_id)
        w1 == [w EXCEPT !.threads[thread].state = "THREAD_READY"]
        added == add_to_queue(w1, thread_id, w1.threads[thread].priority)
    IN IF thread = NULL THEN [w |-> w, ret |-> FALSE, hung |-> FALSE]
       ELSE [w |-> added.w, ret |-> added.ret, hung |-> FALSE]

scheduler_unblock_thread(w, thread_id, u) ==
    LET thread == pm_get_thread(w, thread_id)
        w1 == [w EXCEPT !.threads[thread].state = "THREAD_READY"]
        added == add_to_queue(w1, thread_id, w1.threads[thread].priority)
        w2 == added.w
        current_thread == pm_get_thread(w2, w2.scheduler_state.current_thread)
        switch == scheduler_context_switch(w2, TRUE, u)
    IN IF thread = NULL THEN [w |-> w, ret |-> FALSE, hung |-> FALSE]
       ELSE IF /\ added.ret /\ w2.scheduler_running
               /\ w2.scheduler_state.preemption_enabled
               /\ current_thread # NULL
               /\ w2.threads[thread].priority > w2.threads[current_thread].priority
       THEN [w |-> switch.w, ret |-> added.ret, hung |-> switch.hung]
       ELSE [w |-> w2, ret |-> added.ret, hung |-> FALSE]

scheduler_set_thread_priority(w, thread_id, priority, u) ==
    LET set == pm_set_thread_priority(w, thread_id, priority)
        removed == remove_from_queues(set.w, thread_id)
        w1 == IF removed.ret THEN add_to_queue(removed.w, thread_id, priority).w
              ELSE removed.w
        cur == w1.scheduler_state.current_thread
        current_thread == pm_get_thread(w1, cur)
        yield == IF cur = thread_id
                 THEN current_thread # NULL /\ priority < w1.threads[current_thread].priority
                 ELSE current_thread # NULL /\ priority > w1.threads[current_thread].priority
        switch == scheduler_context_switch(w1, TRUE, u)
    IN IF priority >= PRIORITY_QUEUE_COUNT THEN [w |-> w, ret |-> FALSE, hung |-> FALSE]
       ELSE IF ~set.ret THEN [w |-> w, ret |-> FALSE, hung |-> FALSE]
       ELSE IF w1.scheduler_running /\ w1.scheduler_state.preemption_enabled /\ yield
       THEN [w |-> switch.w, ret |-> TRUE, hung |-> switch.hung]
       ELSE [w |-> w1, ret |-> TRUE, hung |-> FALSE]

\* scheduler_change_type without the test of scheduler_running
scheduler_change_type_running(w, type) ==
    [w |-> [w EXCEPT !.scheduler_state.type = type], ret |-> TRUE]

scheduler_change_type(w, type) ==
    IF w.scheduler_running THEN [w |-> w, ret |-> FALSE]
    ELSE [w |-> [w EXCEPT !.scheduler_state.type = type], ret |-> TRUE]

\* quantum: what hal_ops->has_quantum_support() answers
scheduler_create_superposition(w, thread_id, quantum) ==
    LET thread == pm_get_thread(w, thread_id)
        slot_index == FirstIndex(w.superposition_states,
                                 LAMBDA s : s.thread_id = 0 \/ s.thread_id = thread_id)
        halve(queue) ==
            LET k == FirstIndex(queue, LAMBDA e : e.thread_id = thread_id)
            IN IF k = 0 THEN queue
               ELSE [queue EXCEPT ![k].quantum_probability = ProbHalf]
    IN IF ~quantum THEN [w |-> w, ret |-> FALSE]
       ELSE IF thread = NULL THEN [w |-> w, ret |-> FALSE]
       ELSE IF slot_index = 0 THEN [w |-> w, ret |-> FALSE]
       ELSE [w |-> [w EXCEPT !.superposition_states[slot_index] =
                                  [thread_id |-> thread_id, probability |-> ProbHalf],
                             !.threads[thread].state = "THREAD_QUANTUM",
                             !.scheduler_state.superposition_count = Inc32(@),
                             !.ready_queues = [i \in Levels |-> halve(@[i])]],
             ret |-> TRUE]

\* probability_bias and random_value are counted in halves, like the
\* probabilities; a bias outside 0..ProbOne is one outside [0.0, 1.0].
\* thread_exists: random_value <= collapse_probability, both sides times
\* ProbOne when the bias applies
thread_exists(p, probability_bias, random_value) ==
    IF probability_bias >= 0 /\ probability_bias <= ProbOne
    THEN random_value * ProbOne
            <= p * probability_bias + (ProbOne - p) * (ProbOne - probability_bias)
    ELSE random_value <= p

scheduler_collapse_superposition(w, thread_id, probability_bias, random_value) ==
    LET slot_index == FirstIndex(w.superposition_states,
                                 LAMBDA s : s.thread_id = thread_id)
        thread == pm_get_thread(w, thread_id)
        p == w.superposition_states[slot_index].probability
        w1 == [w EXCEPT !.threads[thread].state = "THREAD_READY"]
        in_queue == \E i \in Levels : \E k \in 1..Len(w1.ready_queues[i]) :
                        w1.ready_queues[i][k].thread_id = thread_id
        level == CHOOSE i \in Levels :
                    /\ \E k \in 1..Len(w1.ready_queues[i]) :
                           w1.ready_queues[i][k].thread_id = thread_id
                    /\ \A j \in Levels : j < i =>
                           \A k \in 1..Len(w1.ready_queues[j]) :
                               w1.ready_queues[j][k].thread_id # thread_id
        k0 == FirstIndex(w1.ready_queues[level], LAMBDA e : e.thread_id = thread_id)
        survived == IF in_queue
                    THEN [w1 EXCEPT !.ready_queues[level][k0].quantum_probability = ProbOne]
                    ELSE add_to_queue(w1, thread_id, w1.threads[thread].priority).w
        w2 == IF thread_exists(p, probability_bias, random_value) THEN survived
              ELSE pm_terminate_thread(w, thread_id).w
        clear(x) == [x EXCEPT !.superposition_states[slot_index].thread_id = 0,
                              !.scheduler_state.superposition_count = Dec32(@)]
    IN IF slot_index = 0 THEN [w |-> w, ret |-> FALSE]
       ELSE IF thread = NULL THEN [w |-> clear(w), ret |-> TRUE]
       ELSE [w |-> clear(w2), ret |-> TRUE]

\* what last holds when the last call was of a function that is not watched
NotWatched == [op |-> "", arg |-> 0, ret |-> FALSE, id |-> 0, granted |-> TRUE]

(***************************************************************************)
(* Initial states: pm_init(MaxProcesses) and scheduler_init(type, 0,       *)
(* preemption_enabled) have returned.                                      *)
(***************************************************************************)
\* the registry that holds processes 1..n, each Created with its main thread
Registered(n, prio) ==
    /\ processes = [p \in 1..n |->
                       [state |-> "PROCESS_CREATED", priority |-> prio[p],
                        threads |-> <<p>>, thread_count |-> 1, entanglement_id |-> 0,
                        memory_map |-> TRUE]]
    /\ threads = [t \in 1..n |->
                     [process_id |-> t, state |-> "THREAD_CREATED", priority |-> prio[t]]]
    /\ pm_stats = [total_processes |-> n, running_processes |-> 0,
                   blocked_processes |-> 0, quantum_processes |-> 0,
                   total_threads |-> n, total_entanglements |-> 0]
    /\ next_process_id = n + 1
    /\ next_thread_id = n + 1
    /\ mm_regions = n + n

Initialized ==
    /\ process_entanglements =
           [i \in 1..MaxEntanglements |->
               [id |-> 0, first_process |-> 0, second_process |-> 0,
                type |-> "ENTANGLE_NONE"]]
    /\ next_entanglement_id = 1
    /\ scheduler_running = FALSE
    /\ \E type \in SchedulerType, preemption_enabled \in BOOLEAN :
           scheduler_state = [type |-> type, current_process |-> 0, current_thread |-> 0,
                              time_slice |-> SCHEDULER_DEFAULT_QUANTUM,
                              last_context_switch |-> 0, total_context_switches |-> 0,
                              superposition_count |-> 0,
                              preemption_enabled |-> preemption_enabled]
    /\ ready_queues = [i \in Levels |-> <<>>]
    /\ superposition_states =
           [i \in 1..MaxSuperpositions |-> [thread_id |-> 0, probability |-> 0]]
    /\ clock = 0
    /\ last = NotWatched
    /\ hung = FALSE
    /\ collapsed = {}

\* the program as built: pm_create_process is the only way to a process
Init == Initialized /\ Registered(0, <<>>)

\* the registry test_process_manager.c and test_scheduler.c expect after
\* SeedProcs calls of pm_create_process
InitReg == Initialized /\ Registered(SeedProcs, SeedPriorities)

(***************************************************************************)
(* Actions: one public call each, with its arguments drawn from small sets *)
(***************************************************************************)
\* ids the callers pass: the seeded ones and the first one handed out later
\* (which names nothing until then)
PidInputs == 1..(SeedProcs + 1)
TidInputs == 1..(SeedProcs + 1)
\* pairing types the callers pass: the two that put the members in
\* PROCESS_QUANTUM and one that does not
PairingTypeInputs == {"ENTANGLE_STATE", "ENTANGLE_EXECUTION", "ENTANGLE_RESONANCE"}
\* where rand() lands in get_next_thread; only SCHEDULER_QUANTUM calls rand()
RandInputs == IF scheduler_state.type = "SCHEDULER_QUANTUM" THEN 0..(SeedProcs - 1) ELSE {0}

Apply(w) ==
    /\ processes' = w.processes
    /\ threads' = w.threads
    /\ pm_stats' = w.pm_stats
    /\ process_entanglements' = w.process_entanglements
    /\ next_process_id' = w.next_process_id
    /\ next_thread_id' = w.next_thread_id
    /\ next_entanglement_id' = w.next_entanglement_id
    /\ mm_regions' = w.mm_regions
    /\ scheduler_running' = w.scheduler_running
    /\ scheduler_state' = w.scheduler_state
    /\ ready_queues' = w.ready_queues
    /\ superposition_states' = w.superposition_states
    /\ clock' = w.clock

\* the call op(arg, ...) returned ret (with id in its out-parameter);
\* granted: no allocation of the call was refused
Returned(op, arg, ret, id, granted) ==
    /\ watch' = watch
    /\ last' = IF op \in watch
               THEN [op |-> op, arg |-> arg, ret |-> ret, id |-> id, granted |-> granted]
               ELSE NotWatched
    /\ collapsed' = IF op \notin watch THEN collapsed
                    ELSE IF op = "scheduler_collapse_superposition" /\ ret
                    THEN collapsed \cup {arg}
                    ELSE IF op = "scheduler_create_superposition"
                    THEN collapsed \ {arg}
                    ELSE collapsed

TotalQueued == LET RECURSIVE Sum(_)
                   Sum(i) == IF i < 0 THEN 0 ELSE Len(ready_queues[i]) + Sum(i - 1)
               IN Sum(PRIORITY_QUEUE_COUNT - 1)

\* the caps that keep the queues and the switch counter bounded
MayQueue == TotalQueued < MaxQueued
QueueFits == TotalQueued' <= MaxQueued
MaySwitch == scheduler_state.total_context_switches < MaxSwitches

CreateProcess ==
    /\ ~hung /\ next_process_id <= MaxPid
    /\ \E priority \in PriorityInputs, malloc_ok \in BOOLEAN, mm_ok \in BOOLEAN :
          LET r == pm_create_process(World, [priority |-> priority], malloc_ok, mm_ok)
          IN /\ Apply(r.w)
             /\ Returned("pm_create_process", 0, r.ret, r.id, malloc_ok /\ mm_ok)
    /\ hung' = FALSE

CreateThread ==
    /\ ~hung /\ next_thread_id <= MaxTid
    /\ \E process_id \in PidInputs, priority \in PriorityInputs,
          malloc_ok \in BOOLEAN, mm_ok \in BOOLEAN :
          LET r == pm_create_thread(World, [process_id |-> process_id,
                                           priority |-> priority], malloc_ok, mm_ok)
          IN /\ Apply(r.w)
             /\ Returned("pm_create_thread", process_id, r.ret, r.id, malloc_ok /\ mm_ok)
    /\ hung' = FALSE

\* the pairing id the process holds (0 if it holds none or is not registered)
PairingOf(process_id) ==
    IF pm_get_process(World, process_id) = NULL THEN 0
    ELSE processes[process_id].entanglement_id

\* a termination is recorded with the pairing id its process held
TerminateProcess ==
    /\ ~hung
    /\ \E process_id \in PidInputs :
          LET r == pm_terminate_process(World, process_id)
          IN /\ Apply(r.w)
             /\ Returned("pm_terminate_process", process_id, r.ret,
                         PairingOf(process_id), TRUE)
    /\ hung' = FALSE

TerminateThread ==
    /\ ~hung
    /\ \E thread_id \in TidInputs :
          LET r == pm_terminate_thread(World, thread_id)
              owner == IF pm_get_thread(World, thread_id) = NULL THEN 0
                       ELSE threads[thread_id].process_id
          IN /\ Apply(r.w)
             /\ Returned("pm_terminate_thread", thread_id, r.ret, PairingOf(owner), TRUE)
    /\ hung' = FALSE

SetProcessPriority ==
    /\ ~hung
    /\ \E process_id \in PidInputs, priority \in PriorityInputs :
          LET r == pm_set_process_priority(World, process_id, priority)
          IN Apply(r.w) /\ Returned("pm_set_process_priority", process_id, r.ret, 0, TRUE)
    /\ hung' = FALSE

SetThreadPriority ==
    /\ ~hung
    /\ \E thread_id \in TidInputs, priority \in PriorityInputs :
          LET r == pm_set_thread_priority(World, thread_id, priority)
          IN Apply(r.w) /\ Returned("pm_set_thread_priority", thread_id, r.ret, 0, TRUE)
    /\ hung' = FALSE

Start ==
    /\ ~hung /\ MaySwitch
    /\ \E u \in RandInputs :
          LET r == scheduler_start(World, u)
          IN Apply(r.w) /\ Returned("scheduler_start", 0, r.ret, 0, TRUE) /\ hung' = r.hung
    /\ QueueFits

Stop ==
    /\ ~hung
    /\ LET r == scheduler_stop(World)
       IN Apply(r.w) /\ Returned("scheduler_stop", 0, r.ret, 0, TRUE)
    /\ hung' = FALSE

AddThread ==
    /\ ~hung /\ MayQueue
    /\ \E thread_id \in TidInputs :
          LET r == scheduler_add_thread(World, thread_id)
          IN Apply(r.w) /\ Returned("scheduler_add_thread", thread_id, r.ret, 0, TRUE)
    /\ hung' = FALSE

RemoveThread ==
    /\ ~hung
    /\ \E thread_id \in TidInputs :
          LET r == scheduler_remove_thread(World, thread_id)
          IN Apply(r.w) /\ Returned("scheduler_remove_thread", thread_id, r.ret, 0, TRUE)
    /\ hung' = FALSE

BlockThread ==
    /\ ~hung /\ MaySwitch
    /\ \E thread_id \in TidInputs, u \in RandInputs :
          LET r == scheduler_block_thread(World, thread_id, u)
          IN /\ Apply(r.w) /\ hung' = r.hung
             /\ Returned("scheduler_block_thread", thread_id, r.ret, 0, TRUE)

UnblockThread ==
    /\ ~hung /\ MayQueue /\ MaySwitch
    /\ \E thread_id \in TidInputs, u \in RandInputs :
          LET r == scheduler_unblock_thread(World, thread_id, u)
          IN /\ Apply(r.w) /\ hung' = r.hung
             /\ Returned("scheduler_unblock_thread", thread_id, r.ret, 0, TRUE)

SchedulerSetThreadPriority ==
    /\ ~hung /\ MayQueue /\ MaySwitch
    /\ \E thread_id \in TidInputs, priority \in PriorityInputs, u \in RandInputs :
          LET r == scheduler_set_thread_priority(World, thread_id, priority, u)
          IN /\ Apply(r.w) /\ hung' = r.hung
             /\ Returned("scheduler_set_thread_priority", thread_id, r.ret, 0, TRUE)

ContextSwitch ==
    /\ ~hung /\ MaySwitch
    /\ \E force \in BOOLEAN, u \in RandInputs :
          LET r == scheduler_context_switch(World, force, u)
          IN /\ Apply(r.w) /\ hung' = r.hung
             /\ Returned("scheduler_context_switch", IF force THEN 1 ELSE 0, r.ret, 0, TRUE)
    /\ QueueFits

\* scheduler_context_switch(true), as a caller that only forces switches
ForcedSwitch ==
    /\ ~hung /\ scheduler_state.total_context_switches < MaxRounds
    /\ \E u \in RandInputs :
          LET r == scheduler_context_switch(World, TRUE, u)
          IN /\ Apply(r.w) /\ hung' = r.hung
             /\ Returned("scheduler_context_switch", 1, r.ret, 0, TRUE)
    /\ TotalQueued' <= MaxRoundQueued

ChangeType ==
    /\ ~hung
    /\ \E type \in SchedulerType :
          LET r == scheduler_change_type(World, type)
          IN Apply(r.w) /\ Returned("scheduler_change_type", type, r.ret, 0, TRUE)
    /\ hung' = FALSE

\* probability_bias: 0.0, 0.5, 1.0 and one value out of range
BiasInputs == 0..(ProbOne + 1)
RandomValues == 0..ProbOne

CreateSuperposition ==
    /\ ~hung /\ scheduler_state.superposition_count < MaxSupCount
    /\ \E thread_id \in TidInputs, quantum \in BOOLEAN :
          LET r == scheduler_create_superposition(World, thread_id, quantum)
          IN Apply(r.w)
             /\ Returned("scheduler_create_superposition", thread_id, r.ret, 0, TRUE)
    /\ hung' = FALSE

\* the bias is recorded (as id) when watch holds "probability_bias"
CollapseSuperposition ==
    /\ ~hung /\ MayQueue /\ scheduler_state.superposition_count > -MaxSupCount
    /\ \E thread_id \in TidInputs \cup {0}, bias \in BiasInputs,
          random_value \in RandomValues :
          LET r == scheduler_collapse_superposition(World, thread_id, bias, random_value)
          IN Apply(r.w)
             /\ Returned("scheduler_collapse_superposition", thread_id, r.ret,
                         IF "probability_bias" \in watch THEN bias ELSE 0, TRUE)
    /\ hung' = FALSE

\* time(NULL) moves on (no call: last is reset)
Tick ==
    /\ ~hung /\ clock < MaxClock
    /\ clock' = clock + 1
    /\ last' = NotWatched
    /\ UNCHANGED <<processes, threads, pm_stats, process_entanglements, next_process_id,
                   next_thread_id, next_entanglement_id, mm_regions, scheduler_running,
                   scheduler_state, ready_queues, superposition_states, watch, hung,
                   collapsed>>

\* quantum: what hal_ops->has_quantum_support() answers
\* at most MaxNewIds pairing ids are issued; refused requests stay possible
CreatePairing ==
    /\ ~hung
    /\ \E first \in PidInputs, second \in PidInputs, type \in PairingTypeInputs,
          quantum \in BOOLEAN :
          LET r == pm_create_process_entanglement(World, first, second, type, quantum)
          IN Apply(r.w)
             /\ Returned("pm_create_process_entanglement", <<first, second>>, r.ret # 0,
                         r.ret, TRUE)
    /\ next_entanglement_id' <= MaxNewIds + 1
    /\ hung' = FALSE

\* entanglement id 0 matches a free slot: the guard bounds how far below zero
\* total_entanglements is taken
BreakPairing ==
    /\ ~hung /\ pm_stats.total_entanglements >= 0
    /\ \E entanglement_id \in 0..MaxNewIds :
          LET r == pm_break_process_entanglement(World, entanglement_id)
          IN Apply(r.w)
             /\ Returned("pm_break_process_entanglement", entanglement_id, r.ret, 0, TRUE)
    /\ hung' = FALSE

SyncPairing ==
    /\ ~hung
    /\ \E entanglement_id \in 0..MaxNewIds :
          LET r == pm_sync_process_entanglement(World, entanglement_id)
          IN Apply(r.w)
             /\ Returned("pm_sync_process_entanglement", entanglement_id, r.ret, 0, TRUE)
    /\ hung' = FALSE

PMOps == {"pm_create_process", "pm_create_thread", "pm_terminate_process",
          "pm_terminate_thread", "pm_set_process_priority", "pm_set_thread_priority",
          "pm_create_process_entanglement", "pm_break_process_entanglement",
          "pm_sync_process_entanglement"}
SchedulerOps == {"scheduler_start", "scheduler_stop", "scheduler_add_thread",
                 "scheduler_remove_thread", "scheduler_block_thread",
                 "scheduler_unblock_thread", "scheduler_set_thread_priority",
                 "scheduler_context_switch", "scheduler_change_type",
                 "scheduler_create_superposition", "scheduler_collapse_superposition"}

\* every public function
Next ==
    \/ CreateProcess \/ CreateThread \/ TerminateProcess \/ TerminateThread
    \/ SetProcessPriority \/ SetThreadPriority \/ CreatePairing \/ BreakPairing
    \/ SyncPairing
    \/ Start \/ Stop \/ AddThread \/ RemoveThread \/ BlockThread \/ UnblockThread
    \/ SchedulerSetThreadPriority \/ ContextSwitch \/ ChangeType
    \/ CreateSuperposition \/ CollapseSuperposition \/ Tick

\* creation and termination in the registry
NextRegistry == CreateProcess \/ CreateThread \/ TerminateProcess \/ TerminateThread

\* the registry with pairings
NextPM == NextRegistry \/ CreatePairing \/ BreakPairing

\* termination, of processes with one thread or more, paired or not (a
\* pairing is broken by the termination of either process)
NextTerminate == CreateThread \/ TerminateProcess \/ TerminateThread \/ CreatePairing

\* the ready queues and the controller, with threads that come and go
NextSched ==
    \/ Start \/ Stop \/ AddThread \/ RemoveThread \/ BlockThread \/ UnblockThread
    \/ SchedulerSetThreadPriority \/ ContextSwitch \/ TerminateThread

\* scheduler_init(type, 0, preemption_enabled), as the specifications that do
\* not vary the policy call it
PriorityPreemptive ==
    scheduler_state.type = "SCHEDULER_PRIORITY" /\ scheduler_state.preemption_enabled

(***************************************************************************)
(* Specifications.  Spec is the program as built: its registry starts      *)
(* empty, and pm_create_process is the only way to a process.  The others  *)
(* start from InitReg, the registry that test_process_manager.c and        *)
(* test_scheduler.c expect pm_create_process to have built.                *)
(***************************************************************************)
InitProgram == Init /\ watch = {"pm_create_process"}
Spec == InitProgram /\ [][Next]_vars

InitIds ==
    /\ InitReg /\ PriorityPreemptive
    /\ watch = {"pm_create_process", "pm_create_thread"}
SpecIds == InitIds /\ [][NextRegistry]_vars

InitTerminate ==
    /\ InitReg /\ PriorityPreemptive
    /\ watch = {"pm_terminate_process", "pm_terminate_thread"}
SpecTerminate == InitTerminate /\ [][NextTerminate]_vars

\* the policies that select without rand()
NonProbabilistic == scheduler_state.type # "SCHEDULER_QUANTUM"

InitSched == InitReg /\ NonProbabilistic /\ watch = {"scheduler_context_switch"}
SpecSched == InitSched /\ [][NextSched]_vars

InitBlock ==
    /\ InitReg /\ NonProbabilistic /\ scheduler_state.preemption_enabled
    /\ watch = {"scheduler_block_thread", "scheduler_unblock_thread"}
SpecBlock == InitBlock /\ [][NextSched]_vars

\* the controller: start, stop, switch and change of policy, as time passes
\* and threads are queued, blocked and terminated
NextPairing ==
    \/ CreatePairing \/ TerminateProcess

NextPair ==
    \/ CreatePairing \/ BreakPairing \/ TerminateProcess \/ TerminateThread

\* the pairing tests register one process more, so that a pairing can be
\* refused for want of a slot alone
PairPriorities == SeedPriorities \o <<PRIORITY_NORMAL>>

InitPair ==
    /\ Initialized /\ Registered(Len(PairPriorities), PairPriorities)
    /\ PriorityPreemptive
    /\ watch = {"pm_create_process_entanglement"}
SpecPair == InitPair /\ [][NextPairing]_vars

InitBreak ==
    /\ Initialized /\ Registered(Len(PairPriorities), PairPriorities)
    /\ PriorityPreemptive
    /\ watch = {"pm_break_process_entanglement", "pm_terminate_process",
                "pm_terminate_thread"}
SpecBreak == InitBreak /\ [][NextPair]_vars

\* the stored probabilities the survival rule is tried on: 0.0, 0.5, 1.0
\* (scheduler_create_superposition stores 0.5 only)
SlotProbabilities == {0, ProbHalf, ProbOne}

\* InitReg with thread 1 in superposition, in the first slot
InitRule ==
    /\ Registered(SeedProcs, SeedPriorities)
    /\ process_entanglements =
           [i \in 1..MaxEntanglements |->
               [id |-> 0, first_process |-> 0, second_process |-> 0,
                type |-> "ENTANGLE_NONE"]]
    /\ next_entanglement_id = 1
    /\ scheduler_running = FALSE
    /\ scheduler_state = [type |-> "SCHEDULER_QUANTUM", current_process |-> 0,
                          current_thread |-> 0, time_slice |-> SCHEDULER_DEFAULT_QUANTUM,
                          last_context_switch |-> 0, total_context_switches |-> 0,
                          superposition_count |-> 1, preemption_enabled |-> FALSE]
    /\ ready_queues = [i \in Levels |-> <<>>]
    /\ \E p \in SlotProbabilities :
           superposition_states =
               [i \in 1..MaxSuperpositions |->
                   IF i = 1 THEN [thread_id |-> 1, probability |-> p]
                   ELSE [thread_id |-> 0, probability |-> 0]]
    /\ clock = 0
    /\ watch = {"scheduler_collapse_superposition", "probability_bias"}
    /\ last = NotWatched
    /\ hung = FALSE
    /\ collapsed = {}

NextRule ==
    \/ CollapseSuperposition \/ AddThread \/ RemoveThread

SpecRule == InitRule /\ [][NextRule]_vars

NextSuper ==
    \/ CreateSuperposition \/ CollapseSuperposition \/ AddThread \/ TerminateThread

InitSuper ==
    /\ InitReg /\ scheduler_state.type = "SCHEDULER_QUANTUM"
    /\ ~scheduler_state.preemption_enabled
    /\ watch = {"scheduler_create_superposition", "scheduler_collapse_superposition"}
SpecSuper == InitSuper /\ [][NextSuper]_vars

\* The probabilistic selection, over queues and superposition slots that the
\* calls fill; the scheduler is not running.
NextSelect ==
    \/ AddThread \/ SchedulerSetThreadPriority
    \/ CreateSuperposition \/ CollapseSuperposition

InitSelect ==
    /\ InitReg /\ scheduler_state.type = "SCHEDULER_QUANTUM"
    /\ ~scheduler_state.preemption_enabled
    /\ watch = {"scheduler_add_thread"}
SpecSelect == InitSelect /\ [][NextSelect]_vars

\* Removal from the ready queues, of threads queued once or more often
NextRemove ==
    \/ AddThread \/ RemoveThread \/ UnblockThread \/ SchedulerSetThreadPriority

InitRemove ==
    /\ InitReg /\ ~scheduler_state.preemption_enabled
    /\ watch = {"scheduler_remove_thread"}
SpecRemove == InitRemove /\ [][NextRemove]_vars

\* Round robin: the seeded threads at one priority, each queued once (in
\* either order) by scheduler_add_thread, under a policy that re-queues the
\* thread it selects; then the scheduler is started and switches are forced.
InitRound ==
    /\ \E priority \in PriorityInputs :
          /\ Registered(SeedProcs, [t \in 1..SeedProcs |-> priority])
          /\ \E first \in 1..SeedProcs :
                ready_queues =
                    [i \in Levels |->
                        IF i # priority THEN <<>>
                        ELSE <<[thread_id |-> first, quantum_probability |-> ProbOne]>>
                             \o [k \in 1..(SeedProcs - 1) |->
                                    [thread_id |-> ((first + k - 1) % SeedProcs) + 1,
                                     quantum_probability |-> ProbOne]]]
    /\ process_entanglements =
           [i \in 1..MaxEntanglements |->
               [id |-> 0, first_process |-> 0, second_process |-> 0,
                type |-> "ENTANGLE_NONE"]]
    /\ next_entanglement_id = 1
    /\ scheduler_running = FALSE
    /\ \E type \in {"SCHEDULER_ROUND_ROBIN", "SCHEDULER_PRIORITY",
                     "SCHEDULER_MULTILEVEL_FEEDBACK"},
          preemption_enabled \in BOOLEAN :
          scheduler_state = [type |-> type, current_process |-> 0,
                             current_thread |-> 0, time_slice |-> SCHEDULER_DEFAULT_QUANTUM,
                             last_context_switch |-> 0, total_context_switches |-> 0,
                             superposition_count |-> 0,
                             preemption_enabled |-> preemption_enabled]
    /\ superposition_states =
           [i \in 1..MaxSuperpositions |-> [thread_id |-> 0, probability |-> 0]]
    /\ clock = 0
    /\ watch = {"scheduler_start", "scheduler_context_switch"}
    /\ last = NotWatched
    /\ hung = FALSE
    /\ collapsed = {}

NextRound ==
    \/ Start \/ ForcedSwitch \/ Tick

SpecRound == InitRound /\ [][NextRound]_vars

\* Changes of priority while the scheduler runs with preemption
NextPriority ==
    \/ AddThread \/ RemoveThread \/ Start \/ SchedulerSetThreadPriority

InitPriority ==
    /\ InitReg /\ NonProbabilistic /\ scheduler_state.preemption_enabled
    /\ watch = {"scheduler_set_thread_priority"}
SpecPriority == InitPriority /\ [][NextPriority]_vars

\* Synchronisation of pairings, between processes whose threads are in the
\* states that the scheduler calls give them
NextSync ==
    \/ CreatePairing \/ SyncPairing \/ AddThread \/ BlockThread \/ CreateSuperposition

InitSync ==
    /\ InitReg /\ PriorityPreemptive
    /\ watch = {"pm_sync_process_entanglement"}
SpecSync == InitSync /\ [][NextSync]_vars

\* the priority setters of the registry and of the scheduler, on threads that
\* are queued and taken off the queues
NextLevel ==
    \/ AddThread \/ RemoveThread \/ SetThreadPriority \/ SetProcessPriority
    \/ SchedulerSetThreadPriority

InitLevel ==
    /\ InitReg /\ PriorityPreemptive
    /\ watch = {"pm_set_thread_priority", "pm_set_process_priority"}
SpecLevel == InitLevel /\ [][NextLevel]_vars

NextStop ==
    \/ Start \/ Stop \/ AddThread \/ CreateSuperposition

InitStop ==
    /\ InitReg /\ ~scheduler_state.preemption_enabled
    /\ watch = {"scheduler_stop"}
SpecStop == InitStop /\ [][NextStop]_vars

NextControl ==
    \/ Start \/ Stop \/ ContextSwitch \/ ChangeType \/ Tick
    \/ AddThread \/ BlockThread \/ TerminateThread

InitControl ==
    /\ InitReg /\ scheduler_state.type = "SCHEDULER_ROUND_ROBIN"
    /\ ~scheduler_state.preemption_enabled
    /\ watch = {"scheduler_start", "scheduler_stop", "scheduler_context_switch",
                "scheduler_change_type"}
SpecControl == InitControl /\ [][NextControl]_vars

(***************************************************************************)
(* Claims                                                                  *)
(***************************************************************************)

\* C1: when the process manager is below its capacity and every allocation
\* is granted, pm_create_process returns true with a non-zero id, and that id
\* names a registered process in state Created with exactly one thread.
C1_CreateProcessSucceeds ==
    [][(/\ last'.op = "pm_create_process" /\ last'.granted
        /\ ~UGe(pm_stats.total_processes, MaxProcesses))
       => /\ last'.ret /\ last'.id # 0
          /\ pm_get_process(World', last'.id) # NULL
          /\ processes'[last'.id].state = "PROCESS_CREATED"
          /\ processes'[last'.id].thread_count = 1]_vars

\* the number of ready-queue entries that name thread_id
EntriesOf(thread_id) ==
    Cardinality({<<i, k>> \in Levels \X (1..(MaxQueued + 2)) :
                    k <= Len(ready_queues[i]) /\ ready_queues[i][k].thread_id = thread_id})

ThreadsOf(w, process_id) ==
    {t \in 1..MaxTid : pm_get_thread(w, t) # NULL /\ w.threads[t].process_id = process_id}

\* C4: after pm_terminate_process(P) returns true, pm_get_process(P) is
\* NULL, pm_get_thread is NULL for every thread that belonged to P, and no
\* registered thread has process_id P.
C4_TerminateProcessRemoves ==
    [][(last'.op = "pm_terminate_process" /\ last'.ret)
       => /\ pm_get_process(World', last'.arg) = NULL
          /\ \A t \in ThreadsOf(World, last'.arg) : pm_get_thread(World', t) = NULL
          /\ ThreadsOf(World', last'.arg) = {}
          /\ \A t \in DOMAIN threads' : threads'[t].process_id # last'.arg]_vars

\* a process was terminated while another one, with two threads, stays
C4_Witness ==
    /\ last.op = "pm_terminate_process" /\ last.ret
    /\ pm_get_process(World, last.arg) = NULL
    /\ \E p \in DOMAIN processes : processes[p].thread_count = 2

C6_LastThreadTerminatesProcess ==
    [][LET T == last'.arg
           P == threads[T].process_id
       IN (/\ last'.op = "pm_terminate_thread"
           /\ pm_get_thread(World, T) # NULL /\ pm_get_process(World, P) # NULL
           /\ threads[T].state # "THREAD_TERMINATED"
           /\ \A t \in ThreadsOf(World, P) \ {T} : threads[t].state = "THREAD_TERMINATED")
          => /\ last'.ret
             /\ pm_get_process(World', P) = NULL
             /\ pm_get_thread(World', T) = NULL]_vars

\* the main thread of a seeded process was terminated, and took the process
\* with it
C6_Witness ==
    \E t \in 1..SeedProcs :
        /\ last.op = "pm_terminate_thread" /\ last.arg = t /\ last.ret
        /\ pm_get_process(World, t) = NULL /\ pm_get_thread(World, t) = NULL

\* C7: under the round-robin, priority, multilevel-feedback and real-time
\* policies get_next_thread returns the thread at the head of the highest
\* non-empty ready queue (0 when all are empty): never a thread of a lower
\* level while a higher level holds an entry.
C7_SelectsHeadOfHighest ==
    scheduler_state.type # "SCHEDULER_QUANTUM"
    => LET selected == get_next_thread(World, 0).ret
       IN IF \A i \in Levels : ready_queues[i] = <<>>
          THEN selected = 0
          ELSE \E i \in Levels :
                  /\ ready_queues[i] # <<>>
                  /\ \A j \in Levels : j > i => ready_queues[j] = <<>>
                  /\ selected = ready_queues[i][1].thread_id

\* a context switch has dispatched a thread of the higher of two non-empty
\* levels, under the priority policy
C7_Witness ==
    /\ scheduler_state.type = "SCHEDULER_PRIORITY"
    /\ last.op = "scheduler_context_switch" /\ last.ret /\ ~hung
    /\ \E i \in Levels, j \in Levels :
          /\ i < j /\ ready_queues[i] # <<>> /\ ready_queues[j] # <<>>
          /\ \A l \in Levels : l > j => ready_queues[l] = <<>>
          /\ \E k \in 1..Len(ready_queues[j]) :
                ready_queues[j][k].thread_id = scheduler_state.current_thread
          /\ \A k \in 1..Len(ready_queues[i]) :
                ready_queues[i][k].thread_id # scheduler_state.current_thread

LiveThreadQueued ==
    \E i \in Levels : \E k \in 1..Len(ready_queues[i]) :
        LET t == ready_queues[i][k].thread_id
        IN pm_get_thread(World, t) # NULL /\ threads[t].state # "THREAD_TERMINATED"

C12_RefusedSwitchChangesNothing ==
    [][(/\ last'.op = "scheduler_context_switch"
        /\ \/ ~scheduler_running
           \/ /\ last'.arg = 0
              /\ clock - scheduler_state.last_context_switch < scheduler_state.time_slice)
       => ~last'.ret /\ ~hung' /\ World' = World]_vars

\* an unforced switch was refused while the scheduler runs with a thread
\* queued: only the time slice can have refused it
C12_Witness ==
    /\ last.op = "scheduler_context_switch" /\ last.arg = 0 /\ ~last.ret /\ ~hung
    /\ scheduler_running /\ LiveThreadQueued
    /\ clock - scheduler_state.last_context_switch < scheduler_state.time_slice

\* C13: scheduler_stop while the scheduler runs returns true, sets the current
\* process and the current thread to none and leaves every ready queue
\* (contents and order) and the superposition pool unchanged; while the
\* scheduler does not run it returns false and changes nothing.
C13_StopKeepsQueues ==
    [][last'.op = "scheduler_stop"
       => IF scheduler_running
          THEN /\ last'.ret /\ ~scheduler_running'
               /\ scheduler_state'.current_process = 0
               /\ scheduler_state'.current_thread = 0
               /\ ready_queues' = ready_queues
               /\ superposition_states' = superposition_states
          ELSE ~last'.ret /\ World' = World]_vars

\* the scheduler was stopped while a thread was running, with entries in the
\* ready queues and an occupied slot in the superposition pool
C13_Witness ==
    /\ last.op = "scheduler_stop" /\ last.ret /\ ~scheduler_running
    /\ \E t \in DOMAIN threads : threads[t].state = "THREAD_RUNNING"
    /\ TotalQueued > 0
    /\ \E i \in 1..MaxSuperpositions : superposition_states[i].thread_id # 0

\* C14: scheduler_change_type succeeds and sets the scheduler type to the
\* requested one only while the scheduler is not running; while it runs the
\* call returns false and leaves the type and all other state unchanged.
C14_ChangeTypeOnlyWhenStopped ==
    [][last'.op = "scheduler_change_type"
       => IF scheduler_running
          THEN ~last'.ret /\ World' = World
          ELSE last'.ret /\ scheduler_state'.type = last'.arg]_vars

\* a change to another type was refused while the scheduler runs
C14_Witness ==
    /\ last.op = "scheduler_change_type" /\ ~last.ret
    /\ scheduler_running /\ last.arg # scheduler_state.type

\* the processes an entanglement slot lists
MembersOf(e) == {e.first_process, e.second_process}

\* C15: in every reachable state each process is a member of at most one
\* active pairing: no two occupied pairing slots list the same process, and
\* the pairing id a process holds is 0 or the id of the single active pairing
\* that lists it.
C15_OnePairingPerProcess ==
    /\ \A i, j \in 1..MaxEntanglements :
           (/\ i # j
            /\ process_entanglements[i].id # 0 /\ process_entanglements[j].id # 0)
           => MembersOf(process_entanglements[i]) \cap MembersOf(process_entanglements[j])
                 = {}
    /\ \A p \in DOMAIN processes :
           \/ processes[p].entanglement_id = 0
           \/ \E i \in 1..MaxEntanglements :
                 /\ process_entanglements[i].id = processes[p].entanglement_id
                 /\ p \in MembersOf(process_entanglements[i])
                 /\ \A j \in 1..MaxEntanglements :
                        (/\ process_entanglements[j].id # 0
                         /\ p \in MembersOf(process_entanglements[j])) => j = i

\* every slot holds an active pairing, one of them of two processes, and
\* every registered process is paired
C15_Witness ==
    /\ \A i \in 1..MaxEntanglements : process_entanglements[i].id # 0
    /\ \E i \in 1..MaxEntanglements :
           process_entanglements[i].first_process # process_entanglements[i].second_process
    /\ \A p \in DOMAIN processes : processes[p].entanglement_id # 0

\* C16: pm_create_process_entanglement(a, b, ...) returns 0 and changes no
\* state whenever a or b does not exist, or a or b already holds a pairing
\* id, or every pairing slot is occupied.
C16_RefusedPairingChangesNothing ==
    [][(/\ last'.op = "pm_create_process_entanglement"
        /\ LET a == last'.arg[1]
               b == last'.arg[2]
           IN \/ pm_get_process(World, a) = NULL
              \/ pm_get_process(World, b) = NULL
              \/ processes[a].entanglement_id # 0
              \/ processes[b].entanglement_id # 0
              \/ find_free_entanglement_slot(World) = 0)
       => ~last'.ret /\ last'.id = 0 /\ World' = World]_vars

\* a pairing of two registered, unpaired processes was refused: every slot
\* is occupied
C16_Witness ==
    /\ last.op = "pm_create_process_entanglement" /\ ~last.ret
    /\ pm_get_process(World, last.arg[1]) # NULL
    /\ pm_get_process(World, last.arg[2]) # NULL
    /\ processes[last.arg[1]].entanglement_id = 0
    /\ processes[last.arg[2]].entanglement_id = 0
    /\ find_free_entanglement_slot(World) = 0

MembersRegistered ==
    \A i \in 1..MaxEntanglements :
        process_entanglements[i].id # 0
        => \A p \in MembersOf(process_entanglements[i]) : pm_get_process(World, p) # NULL

\* C18: a pairing never outlives a member: in every reachable state both
\* members of every active pairing are registered processes, and after a
\* process P is terminated (by pm_terminate_process, or by pm_terminate_thread
\* on its last thread) no active pairing lists P and the former partner of P
\* holds pairing id 0.
C18_PairingDiesWithMember ==
    [][/\ MembersRegistered'
       /\ (last'.op \in {"pm_terminate_process", "pm_terminate_thread"} /\ last'.ret)
          => \A P \in (DOMAIN processes) \ (DOMAIN processes') :
                /\ \A i \in 1..MaxEntanglements :
                       process_entanglements'[i].id # 0
                       => P \notin MembersOf(process_entanglements'[i])
                /\ \A i \in 1..MaxEntanglements :
                       (process_entanglements[i].id # 0
                        /\ P \in MembersOf(process_entanglements[i]))
                       => \A q \in MembersOf(process_entanglements[i]) \ {P} :
                              pm_get_process(World', q) # NULL
                              => processes'[q].entanglement_id = 0]_vars

\* a process that held a pairing with another process was terminated through
\* its last thread; the partner is registered
C18_Witness ==
    /\ last.op = "pm_terminate_thread" /\ last.ret /\ last.id # 0
    /\ pm_get_thread(World, last.arg) = NULL
    /\ Cardinality(DOMAIN processes) = Len(PairPriorities) - 1
    /\ \A p \in DOMAIN processes : processes[p].entanglement_id = 0
    /\ \A i \in 1..MaxEntanglements : process_entanglements[i].id = 0
    /\ \E p \in DOMAIN processes : processes[p].state = "PROCESS_READY"

C20_CollapseWithoutSlotFails ==
    [][(/\ last'.op = "scheduler_collapse_superposition"
        /\ \/ last'.arg = 0
           \/ \A i \in 1..MaxSuperpositions :
                 superposition_states[i].thread_id # last'.arg)
       => ~last'.ret /\ World' = World]_vars

C26_FailedCreateChangesNothing ==
    [][(last'.op \in {"pm_create_process", "pm_create_thread"} /\ ~last'.ret)
       => /\ processes' = processes
          /\ threads' = threads
          /\ pm_stats' = pm_stats
          /\ mm_regions' = mm_regions]_vars

\* pm_create_process refused after both of its allocations were granted,
\* while a process holds as many threads as a process may
C26_Witness ==
    /\ last.op = "pm_create_process" /\ ~last.ret /\ last.granted
    /\ \E p \in DOMAIN processes :
          /\ pm_get_process(World, p) # NULL
          /\ processes[p].thread_count = MaxThreadsPerProcess

OccupiedSlots == {i \in 1..MaxSuperpositions : superposition_states[i].thread_id # 0}

\* C31: in every reachable state scheduler_state.superposition_count is the
\* number of superposition slots whose thread_id is not 0.
C31_CountIsOccupiedSlots ==
    scheduler_state.superposition_count = Cardinality(OccupiedSlots)

C34_BreakOfUnknownIdRefused ==
    [][(/\ last'.op = "pm_break_process_entanglement"
        /\ \/ last'.arg = 0
           \/ \A i \in 1..MaxEntanglements : process_entanglements[i].id # last'.arg)
       => ~last'.ret /\ World' = World]_vars

RunningThreads ==
    {t \in 1..MaxTid : pm_get_thread(World, t) # NULL /\ threads[t].state = "THREAD_RUNNING"}

ProcessesIn(state) ==
    {p \in 1..MaxPid : pm_get_process(World, p) # NULL /\ processes[p].state = state}

====
